---- MODULE Spec2Model ----
(***************************************************************************)
(* rustpython-ndarray: N-dimensional arrays with deferred slicing.        *)
(*                                                                         *)
(* A storage is an Arc<RwLock<ArrayD<T>>>; a handle pairs a storage with   *)
(* the chain of slice groups applied to it on every read and write.        *)
(* Three layers of the repository are modelled:                            *)
(*   - SlicedArcArray<T>   (src/src/generic_pyndarray.rs)                  *)
(*   - PyNdArray<T>        (src/src/lib.rs)                                *)
(*   - GenericArray        (src/src/generic_array.rs)                      *)
(* The ndarray crate's views are modelled as (shape, strides, offset) over *)
(* a row-major buffer, as the crate computes them.                         *)
(***************************************************************************)
EXTENDS Integers, Sequences, FiniteSets, TLC

(***************************************************************************)
(* Bounds of the model.                                                    *)
(***************************************************************************)
\* Operations (calls) started over a whole run.
MaxOps == 2
\* Handles alive at once (the root handles included).
MaxHandles == 4
\* Storages alive at once.
MaxStores == 3

\* Operations applied to the GenericArray values over a whole run.
MaxGenericOps == 2
\* GenericArray values alive at once.
MaxArrays == 4

Threads == {1, 2}

(***************************************************************************)
(* Slice descriptors: ndarray::SliceInfoElem.  One record shape for the    *)
(* three variants; an open end (None) is hasEnd = FALSE.                   *)
(***************************************************************************)
Index(i) == [t |-> "Index", start |-> i, step |-> 0, hasEnd |-> FALSE, end |-> 0]

Slice(start, step) == [t |-> "Slice", start |-> start, step |-> step, hasEnd |-> FALSE, end |-> 0]

SliceTo(start, step, end) == [t |-> "Slice", start |-> start, step |-> step, hasEnd |-> TRUE, end |-> end]

NewAxis == [t |-> "NewAxis", start |-> 0, step |-> 0, hasEnd |-> FALSE, end |-> 0]

(***************************************************************************)
(* Arithmetic helpers.                                                     *)
(***************************************************************************)
Abs(x) == IF x < 0 THEN -x ELSE x

RECURSIVE Product(_)
Product(s) == IF s = <<>> THEN 1 ELSE Head(s) * Product(Tail(s))

RECURSIVE CountIf(_, _)
CountIf(g, kind) ==
    IF g = <<>> THEN 0
    ELSE (IF Head(g).t = kind THEN 1 ELSE 0) + CountIf(Tail(g), kind)

\* SliceInfo::in_ndim: the descriptors that consume an axis of the input.
in_ndim(g) == Len(g) - CountIf(g, "NewAxis")

\* SliceInfo::out_ndim: the descriptors that produce an axis of the output.
out_ndim(g) == Len(g) - CountIf(g, "Index")

(***************************************************************************)
(* Views.  A view is [ok, shape, strides, off]; ok = FALSE stands for the  *)
(* panic of an ndarray assertion.  Offsets are 0-based into the buffer.    *)
(***************************************************************************)
PanicView == [ok |-> FALSE, shape |-> <<>>, strides |-> <<>>, off |-> 0]

\* Dimension::default_strides: row-major, all zero when any axis is empty.
RECURSIVE default_strides(_)
default_strides(shape) ==
    IF shape = <<>> THEN <<>>
    ELSE IF Product(shape) = 0 THEN [k \in 1..Len(shape) |-> 0]
    ELSE <<Product(Tail(shape))>> \o default_strides(Tail(shape))

\* ArrayBase::view / view_mut: the full-extent view of an owned array.
FullView(shape) ==
    [ok |-> TRUE, shape |-> shape, strides |-> default_strides(shape), off |-> 0]

\* dimension::abs_index: a negative index counts from the end.  A result
\* below zero stands for the wrapped usize, which exceeds every extent.
abs_index(len, i) == IF i < 0 THEN len + i ELSE i

\* dimension::do_slice on one axis: [ok, dim, stride, off].
do_slice(dim, stride, e) ==
    LET start == abs_index(dim, e.start)
        end0  == abs_index(dim, IF e.hasEnd THEN e.end ELSE dim)
        end   == IF end0 < start THEN start ELSE end0
        m     == end - start
        astep == Abs(e.step)
        ndim  == IF astep = 1 THEN m
                 ELSE IF astep = 0 THEN 0
                 ELSE (m \div astep) + (IF m % astep > 0 THEN 1 ELSE 0)
    IN  IF start < 0 \/ start > dim \/ end < 0 \/ end > dim \/ e.step = 0
        THEN [ok |-> FALSE, dim |-> 0, stride |-> 0, off |-> 0]
        ELSE [ok     |-> TRUE,
              dim    |-> ndim,
              stride |-> IF ndim <= 1 THEN 0 ELSE stride * e.step,
              off    |-> IF m = 0 THEN 0
                         ELSE IF e.step < 0 THEN (end - 1) * stride
                         ELSE start * stride]

\* dimension::do_collapse_axis on one axis: [ok, off].
do_collapse_axis(dim, stride, index) ==
    IF index < 0 \/ index >= dim
    THEN [ok |-> FALSE, off |-> 0]
    ELSE [ok |-> TRUE, off |-> index * stride]

\* The per-descriptor loop of ArrayBase::slice_move: v is the view being
\* consumed from axis `old` on, acc the view built so far.
RECURSIVE slice_loop(_, _, _, _)
slice_loop(v, g, old, acc) ==
    IF g = <<>> THEN acc
    ELSE LET e == Head(g) IN
         CASE e.t = "Slice" ->
                LET r == do_slice(v.shape[old], v.strides[old], e) IN
                IF ~r.ok THEN PanicView
                ELSE slice_loop(v, Tail(g), old + 1,
                        [acc EXCEPT !.shape = Append(@, r.dim),
                                    !.strides = Append(@, r.stride),
                                    !.off = @ + r.off])
           [] e.t = "Index" ->
                LET i == abs_index(v.shape[old], e.start)
                    r == do_collapse_axis(v.shape[old], v.strides[old], i) IN
                IF ~r.ok THEN PanicView
                ELSE slice_loop(v, Tail(g), old + 1, [acc EXCEPT !.off = @ + r.off])
           [] OTHER ->
                slice_loop(v, Tail(g), old,
                        [acc EXCEPT !.shape = Append(@, 1), !.strides = Append(@, 0)])

\* ArrayBase::slice_move: asserts in_ndim = ndim, then slices axis by axis.
slice_move(v, g) ==
    IF ~v.ok THEN PanicView
    ELSE IF in_ndim(g) # Len(v.shape) THEN PanicView
    ELSE slice_loop(v, g, 1, [ok |-> TRUE, shape |-> <<>>, strides |-> <<>>, off |-> v.off])

\* ArrayBase::bounds_check(&slice), the check append_slice runs before it
\* accepts a group: Ok (TRUE) when the group has one axis-consuming
\* descriptor per axis of the view and each index and range lies within
\* the extent of its axis.
AxisOf(g, k) == in_ndim(SubSeq(g, 1, k))

ElemInBounds(dim, e) ==
    CASE e.t = "Index" -> LET i == abs_index(dim, e.start) IN i >= 0 /\ i < dim
      [] e.t = "Slice" -> do_slice(dim, 1, e).ok
      [] OTHER -> TRUE

\* A check of the number of axes alone.
bounds_check_ndim(v, g) == v.ok /\ in_ndim(g) = Len(v.shape)

bounds_check(v, g) ==
    /\ v.ok
    /\ in_ndim(g) = Len(v.shape)
    /\ \A k \in 1..Len(g) :
          g[k].t # "NewAxis" => ElemInBounds(v.shape[AxisOf(g, k)], g[k])

\* The loop of read / write (and generic_view): fold the chain, in order,
\* onto the full view.  No check is made: a bad group is a panic.
RECURSIVE apply_slices(_, _)
apply_slices(v, slices) ==
    IF slices = <<>> THEN v
    ELSE apply_slices(slice_move(v, Head(slices)), Tail(slices))

\* The buffer offsets a view selects, in the view's logical (row-major)
\* order.
RECURSIVE Offsets(_, _, _)
RECURSIVE AxisOffsets(_, _, _, _)
Offsets(shape, strides, off) ==
    IF shape = <<>> THEN <<off>>
    ELSE AxisOffsets(shape, strides, off, 0)

AxisOffsets(shape, strides, off, i) ==
    IF i >= Head(shape) THEN <<>>
    ELSE Offsets(Tail(shape), Tail(strides), off + i * Head(strides))
            \o AxisOffsets(shape, strides, off, i + 1)

ViewOffsets(v) == Offsets(v.shape, v.strides, v.off)

\* The elements a view shows of a buffer, in logical order.
ViewValues(data, v) ==
    LET offs == ViewOffsets(v) IN [k \in 1..Len(offs) |-> data[offs[k] + 1]]

\* ArrayBase::to_owned: an owned array of the view's shape and elements.
to_owned(data, v) == [shape |-> v.shape, data |-> ViewValues(data, v)]

\* ArrayBase::fill on a mutable view: every selected element becomes x.
fill_view(data, v, x) ==
    LET offs == ViewOffsets(v)
        hit  == {offs[k] + 1 : k \in 1..Len(offs)}
    IN  [k \in 1..Len(data) |-> IF k \in hit THEN x ELSE data[k]]

\* ArrayBase::broadcast: the view of `v` stretched to `shape`, axes
\* aligned from the right; an axis of extent 1 repeats (stride 0).
broadcast(v, shape) ==
    LET n == Len(shape)
        m == Len(v.shape)
        fits == /\ m <= n
                /\ \A k \in 1..m :
                      v.shape[k] = shape[n - m + k] \/ v.shape[k] = 1
    IN  IF ~v.ok \/ ~fits THEN PanicView
        ELSE [ok |-> TRUE, shape |-> shape, off |-> v.off,
              strides |-> [k \in 1..n |->
                  IF k <= n - m THEN 0
                  ELSE IF v.shape[k - (n - m)] = shape[k]
                       THEN v.strides[k - (n - m)] ELSE 0]]

\* ArrayBase::assign(&rhs): the destination view takes the elements of
\* vals (the source, already read, in the order of the broadcast source
\* view).  [ok, data]; ok = FALSE is the panic of a failed broadcast.
assign(data, dv, src, sv) ==
    LET bv == IF sv.shape = dv.shape THEN sv ELSE broadcast(sv, dv.shape) IN
    IF ~dv.ok \/ ~bv.ok THEN [ok |-> FALSE, data |-> data]
    ELSE LET doffs == ViewOffsets(dv)
             vals  == ViewValues(src, bv)
         IN  [ok |-> TRUE,
              data |-> [k \in 1..Len(data) |->
                  IF \E j \in 1..Len(doffs) : doffs[j] + 1 = k
                  THEN vals[CHOOSE j \in 1..Len(doffs) : doffs[j] + 1 = k]
                  ELSE data[k]]]

(***************************************************************************)
(* Python-level selectors (needles).  A needle is a single element or a    *)
(* tuple of elements; an element is an int, a slice or None, written here  *)
(* with the descriptor it converts to.                                     *)
(***************************************************************************)
Single(e) == [tuple |-> FALSE, elems |-> <<e>>]

Tuple(es) == [tuple |-> TRUE, elems |-> es]

\* py_index_to_sliceinfo (generic_pyndarray.rs): a single element gives a
\* one-descriptor group, a tuple one descriptor per member.
py_index_to_sliceinfo(needle) == needle.elems

\* py_shape_to_rust (lib.rs): an int or a tuple of ints, each a usize.
\* [ok, idx].
py_shape_to_rust(needle) ==
    IF \A k \in 1..Len(needle.elems) :
          needle.elems[k].t = "Index" /\ needle.elems[k].start >= 0
    THEN [ok |-> TRUE, idx |-> [k \in 1..Len(needle.elems) |-> needle.elems[k].start]]
    ELSE [ok |-> FALSE, idx |-> <<>>]

\* The selectors the callers of the model use: thread 1 the whole set,
\* thread 2 (a second thread of the host) the first index and the tail.
Needles ==
    { Single(Index(0)), Single(Index(5)),
      Single(Slice(1, 1)), Single(SliceTo(0, 1, 3)),
      Tuple(<<Index(0), Slice(0, 1)>>), Tuple(<<Index(1), Index(1)>>) }

NeedlesOf(t) == IF t = 1 THEN Needles ELSE {Single(Index(0)), Single(Slice(1, 1))}

\* The scalars the callers fill with.
FillValues == {0}

(***************************************************************************)
(* State of the program.                                                   *)
(*   store    the shared storages (Arc<RwLock<ArrayD<T>>>), by identity    *)
(*   lock     the RwLock of each storage: its exclusive holder (0: none)   *)
(*            and its shared holders                                       *)
(*   handles  the handles the host program holds                           *)
(*   pc, op   each thread's position in the call it runs and the call's    *)
(*            arguments and locals                                         *)
(*   res      what each thread's last call returned                        *)
(*   nops     calls started so far                                         *)
(***************************************************************************)
VARIABLES store, lock, handles, pc, op, res, nops, garrays, gres, gn

\* The state of the handles and their storages.
hvars == <<store, lock, handles, pc, op, res, nops>>

\* The state of the GenericArray values (generic_array.rs).
gvars == <<garrays, gres, gn>>

vars == <<store, lock, handles, pc, op, res, nops, garrays, gres, gn>>

NoHandle == [st |-> 0, slices |-> <<>>]

NoBuf == [shape |-> <<>>, data |-> <<>>]

NoOp ==
    [name |-> "none", self |-> NoHandle, slice |-> <<>>, other |-> NoHandle,
     val |-> 0, sliced |-> NoHandle, copied |-> NoBuf, err |-> "none",
     kind |-> "none", from |-> <<>>, to |-> <<>>, src0 |-> <<>>,
     arg |-> "none"]

NoRes ==
    [op |-> "none", self |-> NoHandle, slice |-> <<>>, other |-> NoHandle,
     kind |-> "none", err |-> "none", val |-> 0, h |-> NoHandle,
     from |-> <<>>, to |-> <<>>, arg |-> "none", copied |-> NoBuf]

\* No GenericArray value, and no outcome of an operation on one.
NoArray == [dtype |-> "none", shape |-> <<>>, data |-> <<>>]

NoGRes ==
    [op |-> "none", kind |-> "none", err |-> "none", dst |-> 0, dchain |-> <<>>,
     src |-> 0, schain |-> <<>>, in_shape |-> <<>>, in_data |-> <<>>,
     shape |-> <<>>, vals |-> <<>>]

\* What a call returns to the host: kind is "scalar", "handle", "ok",
\* "error" (a Python exception, named by err) or "panic".
Returned(o, kind, err, val, h) ==
    [op |-> o.name, self |-> o.self, slice |-> o.slice, other |-> o.other,
     kind |-> kind, err |-> err, val |-> val, h |-> h,
     from |-> o.from, to |-> o.to, arg |-> o.arg, copied |-> o.copied]

\* SlicedArcArray::from_array / PyNdArray::from_array: an empty chain over
\* a fresh storage.
from_array(s) == [st |-> s, slices |-> <<>>]

\* The view read / write hand to their callback: the chain folded onto the
\* full view of the storage.
HandleView(h) == apply_slices(FullView(store[h.st].shape), h.slices)

\* std::sync::RwLock: a shared acquisition waits for the exclusive holder,
\* an exclusive one for every holder.
CanAcquire(s, mode) ==
    IF mode = "shared" THEN lock[s].excl = 0
    ELSE lock[s].excl = 0 /\ lock[s].shared = {}

Acquire(s, mode, t) ==
    IF mode = "shared"
    THEN [lock EXCEPT ![s].shared = @ \cup {t}]
    ELSE [lock EXCEPT ![s].excl = t]

Release(s, mode, t) ==
    IF mode = "shared"
    THEN [lock EXCEPT ![s].shared = @ \ {t}]
    ELSE [lock EXCEPT ![s].excl = 0]

\* SlicedArcArray::read takes self.unsliced.read().
ReadLockMode == "shared"

\* The mode a write scope would take had it called .read() instead.
WriteLockModeShared == "shared"

\* SlicedArcArray::write takes self.unsliced.write().
WriteLockMode == "exclusive"

Init ==
    /\ store = << [dtype |-> "f32", shape |-> <<4>>, data |-> <<1, 2, 3, 4>>],
                  [dtype |-> "f32", shape |-> <<2, 3>>, data |-> <<5, 6, 7, 8, 9, 10>>] >>
    /\ lock = [s \in 1..2 |-> [excl |-> 0, shared |-> {}]]
    /\ handles = {from_array(1), from_array(2)}
    /\ pc = [t \in Threads |-> "idle"]
    /\ op = [t \in Threads |-> NoOp]
    /\ res = [t \in Threads |-> NoRes]
    /\ nops = 0
    /\ garrays = << [dtype |-> "f32", shape |-> <<3>>, data |-> <<1, 2, 3>>],
                    [dtype |-> "f64", shape |-> <<3>>, data |-> <<4, 5, 16777217>>],
                    [dtype |-> "f64", shape |-> <<1>>, data |-> <<7>>] >>
    /\ gres = NoGRes
    /\ gn = 0

(***************************************************************************)
(* SlicedArcArray<T> (generic_pyndarray.rs).  A scope of read or write is  *)
(* two steps: the lock is taken and the callback runs, then the guard is   *)
(* dropped.                                                                *)
(***************************************************************************)
Return(t, r) ==
    /\ pc' = [pc EXCEPT ![t] = "idle"]
    /\ op' = [op EXCEPT ![t] = NoOp]
    /\ res' = [res EXCEPT ![t] = r]

\* A call begins at its first lock acquisition: o is the call's frame once
\* the first scope's callback has run, s and mode the lock it takes.
Start(t, o, s, mode, at) ==
    /\ pc[t] = "idle"
    /\ nops < MaxOps
    /\ CanAcquire(s, mode)
    /\ lock' = Acquire(s, mode, t)
    /\ nops' = nops + 1
    /\ pc' = [pc EXCEPT ![t] = at]
    /\ op' = [op EXCEPT ![t] = o]
    /\ res' = [res EXCEPT ![t] = NoRes]
    /\ UNCHANGED handles

\* An append that accepts every group unchecked.
bounds_unchecked(o) == o

\* append_slice, line 59: self.read(|sliced| sliced.bounds_check(&slice)),
\* the callback's outcome recorded in the frame.
bounds_checked(o) ==
    LET v == HandleView(o.self) IN
    IF ~v.ok THEN [o EXCEPT !.kind = "panic"]
    ELSE IF bounds_check(v, o.slice) THEN o
    ELSE [o EXCEPT !.err = "IndexError"]

\* getitem(needle): line 106, the needle becomes a group; line 107,
\* append_slice opens its read scope.
GetItemCall(t) ==
    \E h \in handles, needle \in NeedlesOf(t) :
        /\ Start(t, bounds_checked([NoOp EXCEPT !.name = "getitem", !.self = h,
                                    !.slice = py_index_to_sliceinfo(needle)]),
              h.st, ReadLockMode, "append_held")
        /\ UNCHANGED <<store, gvars>>

\* fill(needle, value): line 125, append_slice opens its read scope.
FillCall(t) ==
    \E h \in handles, needle \in NeedlesOf(t), x \in FillValues :
        /\ Start(t, bounds_checked([NoOp EXCEPT !.name = "fill", !.self = h, !.val = x,
                                    !.slice = py_index_to_sliceinfo(needle)]),
              h.st, ReadLockMode, "append_held")
        /\ UNCHANGED <<store, gvars>>

\* line 157: other.read(|us| us.to_owned()), the callback's outcome
\* recorded in the frame.
copied_source(o) ==
    LET v == HandleView(o.other) IN
    IF v.ok THEN [o EXCEPT !.copied = to_owned(store[o.other.st].data, v)]
    ELSE [o EXCEPT !.kind = "panic"]

\* assign_fn(slice, other, f), line 155: Arc::ptr_eq picks the branch; the
\* aliased one opens with the copy of the source (line 157), the other
\* with append_slice (line 170).  Both handles are SlicedArcArray<T> of
\* one T.
AssignCall(t) ==
    \E h \in handles, needle \in NeedlesOf(t), other \in handles :
        /\ store[h.st].dtype = store[other.st].dtype
        /\ LET o == [NoOp EXCEPT !.name = "assign", !.self = h, !.other = other,
                                 !.slice = py_index_to_sliceinfo(needle),
                                 !.src0 = ViewValues(store[other.st].data, HandleView(other))] IN
           IF other.st = h.st
           THEN Start(t, copied_source(o), other.st, ReadLockMode, "copy_held")
           ELSE Start(t, bounds_checked(o), h.st, ReadLockMode, "append_held")
        /\ UNCHANGED <<store, gvars>>

\* A copy whose read guard outlives the statement.
copy_guard_kept(s, t) == lock

\* Line 157 ends: the guard of other.read is dropped with the closure's
\* return, before line 158 runs.  The locks afterwards.
copy_guard_dropped(s, t) == Release(s, ReadLockMode, t)

CopyExit(t) ==
    /\ pc[t] = "copy_held"
    /\ lock' = copy_guard_dropped(op[t].other.st, t)
    /\ IF op[t].kind = "panic"
       THEN Return(t, Returned(op[t], "panic", "none", 0, NoHandle))
       ELSE /\ pc' = [pc EXCEPT ![t] = "append"]
            /\ UNCHANGED <<op, res>>
    /\ UNCHANGED <<store, handles, nops, gvars>>

\* The aliased branch's append_slice, line 158, after the copy.
AppendEnter(t) ==
    /\ pc[t] = "append"
    /\ CanAcquire(op[t].self.st, ReadLockMode)
    /\ lock' = Acquire(op[t].self.st, ReadLockMode, t)
    /\ op' = [op EXCEPT ![t] = bounds_checked(@)]
    /\ pc' = [pc EXCEPT ![t] = "append_held"]
    /\ UNCHANGED <<store, handles, res, nops, gvars>>

\* The locks of a store that has grown: a new storage's lock is free.
PadLocks(l, n) ==
    [s \in 1..n |-> IF s <= Len(l) THEN l[s] ELSE [excl |-> 0, shared |-> {}]]

\* A handle built over a deep copy of the storage instead of a clone of
\* the reference to it.
append_slice_copy(st0, h, g) ==
    [store |-> Append(st0, st0[h.st]),
     h |-> [st |-> Len(st0) + 1, slices |-> Append(h.slices, g)]]

\* A handle whose group is put in front of the chain.
append_slice_prepend(st0, h, g) ==
    [store |-> st0, h |-> [st |-> h.st, slices |-> <<g>> \o h.slices]]

\* append_slice, lines 63-69: the chain's copy with the group pushed, and
\* self.unsliced.clone(): the same storage, no new one.  [store, h].
append_slice(st0, h, g) ==
    [store |-> st0, h |-> [st |-> h.st, slices |-> Append(h.slices, g)]]

AfterAppend(o) ==
    CASE o.name = "getitem" -> "gi_read"
      [] o.name = "fill" -> "fill_write"
      [] o.other.st = o.self.st -> "asa_write"
      [] OTHER -> "as_write"

\* append_slice, lines 59-69: the read scope closes; an Err of the check
\* is returned as an IndexError, else the new handle is built.
AppendExit(t) ==
    /\ pc[t] = "append_held"
    /\ IF op[t].kind = "panic"
       THEN /\ Return(t, Returned(op[t], "panic", "none", 0, NoHandle))
            /\ lock' = Release(op[t].self.st, ReadLockMode, t)
            /\ UNCHANGED store
       ELSE IF op[t].err # "none"
       THEN /\ Return(t, Returned(op[t], "error", op[t].err, 0, NoHandle))
            /\ lock' = Release(op[t].self.st, ReadLockMode, t)
            /\ UNCHANGED store
       ELSE LET r == append_slice(store, op[t].self, op[t].slice) IN
            /\ pc' = [pc EXCEPT ![t] = AfterAppend(op[t])]
            /\ op' = [op EXCEPT ![t].sliced = r.h]
            /\ store' = r.store
            /\ lock' = PadLocks(Release(op[t].self.st, ReadLockMode, t), Len(r.store))
            /\ UNCHANGED res
    /\ UNCHANGED <<handles, nops, gvars>>

\* getitem, lines 109-115: a 0-d view is read as a scalar, any other view
\* returns the sliced handle.
getitem_result(data, v) ==
    IF Len(v.shape) = 0
    THEN [kind |-> "scalar", val |-> data[v.off + 1]]
    ELSE [kind |-> "handle", val |-> 0]

GetItemReadEnter(t) ==
    /\ pc[t] = "gi_read"
    /\ CanAcquire(op[t].sliced.st, ReadLockMode)
    /\ lock' = Acquire(op[t].sliced.st, ReadLockMode, t)
    /\ LET v == HandleView(op[t].sliced)
           r == getitem_result(store[op[t].sliced.st].data, v) IN
       op' = [op EXCEPT ![t] =
                IF ~v.ok THEN [@ EXCEPT !.kind = "panic"]
                ELSE [@ EXCEPT !.kind = r.kind, !.val = r.val]]
    /\ pc' = [pc EXCEPT ![t] = "gi_held"]
    /\ UNCHANGED <<store, handles, res, nops, gvars>>

GetItemReadExit(t) ==
    /\ pc[t] = "gi_held"
    /\ lock' = Release(op[t].sliced.st, ReadLockMode, t)
    /\ Return(t, Returned(op[t], op[t].kind, "none", op[t].val,
                 IF op[t].kind = "handle" THEN op[t].sliced ELSE NoHandle))
    /\ handles' = IF op[t].kind = "handle" /\ Cardinality(handles) < MaxHandles
                  THEN handles \cup {op[t].sliced} ELSE handles
    /\ UNCHANGED <<store, nops, gvars>>

\* fill, lines 127-130: sliced_self.write(|mut sliced| sliced.fill(value))
FillWriteEnter(t) ==
    /\ pc[t] = "fill_write"
    /\ CanAcquire(op[t].sliced.st, WriteLockMode)
    /\ lock' = Acquire(op[t].sliced.st, WriteLockMode, t)
    /\ LET s == op[t].sliced.st
           v == HandleView(op[t].sliced) IN
       IF ~v.ok
       THEN /\ op' = [op EXCEPT ![t].kind = "panic"]
            /\ UNCHANGED store
       ELSE /\ store' = [store EXCEPT ![s].data = fill_view(@, v, op[t].val)]
            /\ op' = [op EXCEPT ![t].kind = "ok"]
    /\ pc' = [pc EXCEPT ![t] = "fill_held"]
    /\ UNCHANGED <<handles, res, nops, gvars>>

FillWriteExit(t) ==
    /\ pc[t] = "fill_held"
    /\ lock' = Release(op[t].sliced.st, WriteLockMode, t)
    /\ Return(t, Returned(op[t], op[t].kind, "none", 0, NoHandle))
    /\ UNCHANGED <<store, handles, nops, gvars>>

\* assign_fn, lines 159 and 172: the shapes of the two views differ.
shape_differs_ndim(a, b) == Len(a) # Len(b)

shape_differs(a, b) == a # b

\* An element-wise copy that reads the source view from the buffer it is
\* writing, element by element.
RECURSIVE copy_live(_, _, _, _)
copy_live(data, doffs, soffs, k) ==
    IF k > Len(doffs) \/ k > Len(soffs) THEN data
    ELSE copy_live([data EXCEPT ![doffs[k] + 1] = data[soffs[k] + 1]], doffs, soffs, k + 1)

assign_aliased_live(data, dv, copied, ov) ==
    [ok |-> TRUE, data |-> copy_live(data, ViewOffsets(dv), ViewOffsets(ov), 1)]

\* assign_fn, line 167, with f the plain assignment: f(other_us,
\* copied.view(), vm) writes the temporary copy into the destination.
assign_aliased(data, dv, copied, ov) ==
    assign(data, dv, copied.data, FullView(copied.shape))

\* The callback of either branch: the shape check, then f.
\* [err, from, to, ok, data].
assign_checked(data, dv, src, sv, aliased, copied, ov) ==
    IF shape_differs(dv.shape, sv.shape)
    THEN [err |-> "ShapeMismatch", from |-> sv.shape, to |-> dv.shape,
          ok |-> TRUE, data |-> data]
    ELSE LET r == IF aliased THEN assign_aliased(data, dv, copied, ov)
                  ELSE assign(data, dv, src, sv)
         IN  [err |-> "none", from |-> <<>>, to |-> <<>>, ok |-> r.ok, data |-> r.data]

\* assign_fn, aliased branch, lines 158-168: the write scope.
AliasWriteEnter(t) ==
    /\ pc[t] = "asa_write"
    /\ CanAcquire(op[t].sliced.st, WriteLockMode)
    /\ lock' = Acquire(op[t].sliced.st, WriteLockMode, t)
    /\ LET s  == op[t].sliced.st
           dv == HandleView(op[t].sliced)
           r  == assign_checked(store[s].data, dv, op[t].copied.data,
                                FullView(op[t].copied.shape), TRUE, op[t].copied,
                                HandleView(op[t].other)) IN
       IF ~dv.ok \/ ~r.ok
       THEN /\ op' = [op EXCEPT ![t].kind = "panic"]
            /\ UNCHANGED store
       ELSE /\ store' = [store EXCEPT ![s].data = r.data]
            /\ op' = [op EXCEPT ![t] = [@ EXCEPT !.kind = IF r.err = "none" THEN "ok" ELSE "error",
                                               !.err = r.err, !.from = r.from, !.to = r.to]]
    /\ pc' = [pc EXCEPT ![t] = "asa_held"]
    /\ UNCHANGED <<handles, res, nops, gvars>>

AliasWriteExit(t) ==
    /\ pc[t] = "asa_held"
    /\ lock' = Release(op[t].sliced.st, WriteLockMode, t)
    /\ Return(t, Returned(op[t], op[t].kind, op[t].err, 0, NoHandle))
    /\ UNCHANGED <<store, handles, nops, gvars>>

\* assign_fn, other branch, line 170: the destination's write scope opens.
WriteEnter(t) ==
    /\ pc[t] = "as_write"
    /\ CanAcquire(op[t].sliced.st, WriteLockMode)
    /\ lock' = Acquire(op[t].sliced.st, WriteLockMode, t)
    /\ op' = [op EXCEPT ![t].kind = IF HandleView(op[t].sliced).ok THEN "none" ELSE "panic"]
    /\ pc' = [pc EXCEPT ![t] = IF HandleView(op[t].sliced).ok THEN "as_read" ELSE "as_write_held"]
    /\ UNCHANGED <<store, handles, res, nops, gvars>>

\* lines 171-181: inside it, the source's read scope: check, then f.
NestedReadEnter(t) ==
    /\ pc[t] = "as_read"
    /\ CanAcquire(op[t].other.st, ReadLockMode)
    /\ lock' = Acquire(op[t].other.st, ReadLockMode, t)
    /\ LET s  == op[t].sliced.st
           dv == HandleView(op[t].sliced)
           sv == HandleView(op[t].other)
           r  == assign_checked(store[s].data, dv, store[op[t].other.st].data, sv,
                                FALSE, NoBuf, sv) IN
       IF ~sv.ok \/ ~r.ok
       THEN /\ op' = [op EXCEPT ![t].kind = "panic"]
            /\ UNCHANGED store
       ELSE /\ store' = [store EXCEPT ![s].data = r.data]
            /\ op' = [op EXCEPT ![t] = [@ EXCEPT !.kind = IF r.err = "none" THEN "ok" ELSE "error",
                                               !.err = r.err, !.from = r.from, !.to = r.to]]
    /\ pc' = [pc EXCEPT ![t] = "as_read_held"]
    /\ UNCHANGED <<handles, res, nops, gvars>>

NestedReadExit(t) ==
    /\ pc[t] = "as_read_held"
    /\ lock' = Release(op[t].other.st, ReadLockMode, t)
    /\ pc' = [pc EXCEPT ![t] = "as_write_held"]
    /\ UNCHANGED <<store, handles, op, res, nops, gvars>>

WriteExit(t) ==
    /\ pc[t] = "as_write_held"
    /\ lock' = Release(op[t].sliced.st, WriteLockMode, t)
    /\ Return(t, Returned(op[t], op[t].kind, op[t].err, 0, NoHandle))
    /\ UNCHANGED <<store, handles, nops, gvars>>

(***************************************************************************)
(* PyNdArray<T> (lib.rs), the class the module exports.  Nothing in lib.rs *)
(* appends to `slices`: its handles are the ones with an empty chain.      *)
(***************************************************************************)
\* ArrayBase::get(indices): the element, when there is one index per axis
\* and each is below its extent.  [ok, off].
RECURSIVE dot(_, _)
dot(a, b) == IF a = <<>> THEN 0 ELSE Head(a) * Head(b) + dot(Tail(a), Tail(b))

array_get(shape, idx) ==
    IF Len(idx) = Len(shape) /\ \A k \in 1..Len(idx) : idx[k] < shape[k]
    THEN [ok |-> TRUE, off |-> dot(idx, default_strides(shape))]
    ELSE [ok |-> FALSE, off |-> 0]

\* PyNdArray::getitem, lines 267-280, under the read guard of line 268.
lib_getitem(o) ==
    LET p == py_shape_to_rust([tuple |-> TRUE, elems |-> o.slice])
        c == array_get(store[o.self.st].shape, p.idx) IN
    IF ~p.ok THEN [o EXCEPT !.kind = "error", !.err = "BadIndices"]
    ELSE IF ~c.ok THEN [o EXCEPT !.kind = "error", !.err = "InvalidIndex"]
    ELSE [o EXCEPT !.kind = "scalar", !.val = store[o.self.st].data[c.off + 1]]

LibGetItemCall(t) ==
    \E h \in handles, needle \in NeedlesOf(t) :
        /\ h.slices = <<>>
        /\ Start(t, lib_getitem([NoOp EXCEPT !.name = "lib_getitem", !.self = h,
                                             !.slice = needle.elems]),
                 h.st, ReadLockMode, "lib_get_held")
        /\ UNCHANGED <<store, gvars>>

LibGetItemExit(t) ==
    /\ pc[t] = "lib_get_held"
    /\ lock' = Release(op[t].self.st, ReadLockMode, t)
    /\ Return(t, Returned(op[t], op[t].kind, op[t].err, op[t].val, NoHandle))
    /\ UNCHANGED <<store, handles, nops, gvars>>

\* PyNdArray::setitem, line 290: indices that do not parse fail the call
\* before any lock is taken.
LibSetItemBadIndices(t) ==
    \E h \in handles, needle \in NeedlesOf(t), x \in FillValues :
        /\ h.slices = <<>>
        /\ pc[t] = "idle"
        /\ nops < MaxOps
        /\ ~py_shape_to_rust(needle).ok
        /\ nops' = nops + 1
        /\ res' = [res EXCEPT ![t] =
                Returned([NoOp EXCEPT !.name = "lib_setitem", !.self = h,
                                      !.slice = needle.elems, !.val = x],
                         "error", "BadIndices", 0, NoHandle)]
        /\ UNCHANGED <<store, lock, handles, pc, op, gvars>>

\* PyNdArray::setitem, lines 291-303, under the write guard of line 291.
LibSetItemCall(t) ==
    \E h \in handles, needle \in NeedlesOf(t), x \in FillValues :
        /\ h.slices = <<>>
        /\ py_shape_to_rust(needle).ok
        /\ LET o == [NoOp EXCEPT !.name = "lib_setitem", !.self = h,
                                 !.slice = needle.elems, !.val = x]
               c == array_get(store[h.st].shape, py_shape_to_rust(needle).idx) IN
           IF c.ok
           THEN /\ Start(t, [o EXCEPT !.kind = "ok"], h.st, WriteLockMode, "lib_set_held")
                /\ store' = [store EXCEPT ![h.st].data[c.off + 1] = x]
           ELSE /\ Start(t, [o EXCEPT !.kind = "error", !.err = "InvalidIndex"],
                         h.st, WriteLockMode, "lib_set_held")
                /\ UNCHANGED store
        /\ UNCHANGED gvars

LibSetItemExit(t) ==
    /\ pc[t] = "lib_set_held"
    /\ lock' = Release(op[t].self.st, WriteLockMode, t)
    /\ Return(t, Returned(op[t], op[t].kind, op[t].err, 0, NoHandle))
    /\ UNCHANGED <<store, handles, nops, gvars>>

(***************************************************************************)
(* GenericArray (generic_array.rs): an array of f32 or of f64, behind one  *)
(* enum.  An element is modelled by an integer; an f32 holds the integers  *)
(* of magnitude up to 2^24 exactly and every second one up to 2^25.        *)
(***************************************************************************)
\* `x as f32`: the nearest f32, ties to the even significand.
as_f32(x) ==
    IF Abs(x) <= 16777216 \/ x % 2 = 0 THEN x
    ELSE IF (x + 1) % 4 = 0 THEN x + 1 ELSE x - 1

\* The objects of a host list: a float, or an object that is not one.
PyFloat(x) == [float |-> TRUE, v |-> x]

PyInt(x) == [float |-> FALSE, v |-> x]

Floats(n) == [k \in 1..n |-> PyFloat(k)]

\* The lists handed to from_array as data.
FlatInputs ==
    {Floats(n) : n \in 0..4} \cup {<<PyFloat(16777217)>>, <<PyInt(1)>>}

\* The lists handed to from_array as shape.
PyShapes == {<<>>, <<1>>, <<3>>, <<2, 2>>, <<1, 1, 1>>, <<0>>, <<-1>>}

\* The chains handed to view and view_mut.
GChains == {<<>>, << <<Slice(1, 1)>> >>, << <<Index(0)>> >>, << <<Index(5)>> >>}

\* The chains handed to view alone: two groups, a new axis, a reversed
\* and a strided range, and groups for two axes.
ViewChains ==
    GChains \cup
    { << <<Slice(1, 1)>>, <<Index(0)>> >>,
      << <<SliceTo(0, 1, 2)>>, <<Slice(1, 1)>> >>,
      << <<NewAxis, Slice(0, 2)>> >>,
      << <<Slice(0, -1)>>, <<Index(0)>> >>,
      << <<Index(1), Slice(0, 1)>> >>,
      << <<Slice(1, 1), Slice(0, -1)>>, <<Index(0), Index(0)>> >>,
      << <<Index(-1)>>, <<NewAxis>> >> }

\* The scalars handed to fill.
GFillValues == {0, 16777217}

\* from_array, line 138: the shape list as Vec<usize>.
try_vec_usize(l) == [ok |-> \A k \in 1..Len(l) : l[k] >= 0, v |-> l]

\* from_array, line 140: the data list as Vec<f32>; each float is cast.
try_vec_f32(l) ==
    [ok |-> \A k \in 1..Len(l) : l[k].float,
     v |-> [k \in 1..Len(l) |-> as_f32(l[k].v)]]

\* from_array, line 150: the data list as Vec<f64>.
try_vec_f64(l) ==
    [ok |-> \A k \in 1..Len(l) : l[k].float,
     v |-> [k \in 1..Len(l) |-> l[k].v]]

\* A construction that refuses only a buffer that is too short.
from_shape_vec_atleast(shape, v) ==
    [ok |-> Product(shape) <= Len(v), shape |-> shape, data |-> v]

\* ArrayD::from_shape_vec (lines 144, 152): the buffer must hold exactly
\* the shape's product of elements.
from_shape_vec(shape, v) ==
    [ok |-> Product(shape) = Len(v), shape |-> shape, data |-> v]

\* GenericArrayData::from_array(data, shape).  [kind, err, arr].
GenericArrayData_from_array(data, shape) ==
    LET sh  == try_vec_usize(shape)
        d32 == try_vec_f32(data)
        d64 == try_vec_f64(data)
        fail(e) == [kind |-> "error", err |-> e, arr |-> NoArray]
        made(dtype, r) ==
            IF r.ok
            THEN [kind |-> "ok", err |-> "none",
                  arr |-> [dtype |-> dtype, shape |-> r.shape, data |-> r.data]]
            ELSE fail("ShapeError")
    IN  IF ~sh.ok THEN fail("ConversionError")
        ELSE IF d32.ok THEN made("f32", from_shape_vec(sh.v, d32.v))
        ELSE IF ~d64.ok THEN fail("ConversionError")
        ELSE made("f64", from_shape_vec(sh.v, d64.v))

\* A composer that folds the chain from its last group to its first.
RECURSIVE generic_view_reversed(_, _)
generic_view_reversed(v, slices) ==
    IF slices = <<>> THEN v
    ELSE slice_move(generic_view_reversed(v, Tail(slices)), Head(slices))

\* generic_view, lines 173-181: the chain folded onto the view, each
\* group by slice_move, unchecked.
generic_view(v, slices) == apply_slices(v, slices)

\* generic_view_mut, lines 190-198: the same loop over a mutable view.
RECURSIVE generic_view_mut(_, _)
generic_view_mut(v, slices) ==
    IF slices = <<>> THEN v
    ELSE generic_view_mut(slice_move(v, Head(slices)), Tail(slices))

\* view(data, slices), lines 183-188: the view under the array's own tag.
view(arr, slices) ==
    [dtype |-> arr.dtype, v |-> generic_view(FullView(arr.shape), slices)]

\* view_mut(data, slices), lines 200-212.
view_mut(arr, slices) ==
    [dtype |-> arr.dtype, v |-> generic_view_mut(FullView(arr.shape), slices)]

\* A fill that writes the whole buffer, whatever the view.
GenericArray_fill_all(arr, v, scalar) ==
    [k \in 1..Len(arr.data) |-> IF arr.dtype = "f32" THEN as_f32(scalar) ELSE scalar]

\* GenericArrayDataViewMut::fill(scalar: f64).
GenericArray_fill(arr, v, scalar) ==
    IF arr.dtype = "f32" THEN fill_view(arr.data, v, as_f32(scalar))
    ELSE fill_view(arr.data, v, scalar)

\* An assignment that converts the source to the destination's
\* representation when the two differ.
set_array_cast(d, dv, s, sv) ==
    LET src == IF d.dtype = "f32" THEN [k \in 1..Len(s.data) |-> as_f32(s.data[k])]
               ELSE s.data
        r == assign(d.data, dv, src, sv)
    IN  IF r.ok THEN [kind |-> "ok", err |-> "none", data |-> r.data]
        ELSE [kind |-> "panic", err |-> "none", data |-> d.data]

\* GenericArrayDataViewMut::set_array(source): the two tags are matched;
\* equal tags assign, any other pair is the error.  [kind, err, data].
set_array(d, dv, s, sv) ==
    IF d.dtype = s.dtype
    THEN LET r == assign(d.data, dv, s.data, sv) IN
         IF r.ok THEN [kind |-> "ok", err |-> "none", data |-> r.data]
         ELSE [kind |-> "panic", err |-> "none", data |-> d.data]
    ELSE [kind |-> "error", err |-> "TypeMismatch", data |-> d.data]

\* from_array(data, shape); the host binds the array it returns.
GFromArray ==
    \E data \in FlatInputs, shape \in PyShapes :
        /\ gn < MaxGenericOps
        /\ LET r == GenericArrayData_from_array(data, shape)
               at == IF Len(garrays) < MaxArrays THEN Len(garrays) + 1 ELSE MaxArrays
           IN  /\ garrays' = IF r.kind # "ok" THEN garrays
                             ELSE IF Len(garrays) < MaxArrays THEN Append(garrays, r.arr)
                             ELSE [garrays EXCEPT ![MaxArrays] = r.arr]
               /\ gres' = [NoGRes EXCEPT !.op = "from_array", !.kind = r.kind,
                                         !.err = r.err, !.in_shape = shape,
                                         !.in_data = data,
                                         !.dst = IF r.kind = "ok" THEN at ELSE 0,
                                         !.shape = r.arr.shape, !.vals = r.arr.data]
        /\ gn' = gn + 1
        /\ UNCHANGED hvars

\* view(data, slices), and the elements the view shows.
GView ==
    \E a \in 1..Len(garrays), chain \in ViewChains :
        /\ gn < MaxGenericOps
        /\ LET w == view(garrays[a], chain) IN
           gres' = IF ~w.v.ok
                   THEN [NoGRes EXCEPT !.op = "view", !.kind = "panic",
                                       !.src = a, !.schain = chain]
                   ELSE [NoGRes EXCEPT !.op = "view", !.kind = "view",
                                       !.src = a, !.schain = chain,
                                       !.shape = w.v.shape,
                                       !.vals = ViewValues(garrays[a].data, w.v)]
        /\ gn' = gn + 1
        /\ UNCHANGED <<garrays, hvars>>

\* view_mut(data, slices).fill(scalar).
GFill ==
    \E a \in 1..Len(garrays), chain \in GChains, x \in GFillValues :
        /\ gn < MaxGenericOps
        /\ LET w == view_mut(garrays[a], chain) IN
           IF ~w.v.ok
           THEN /\ gres' = [NoGRes EXCEPT !.op = "fill", !.kind = "panic",
                                          !.dst = a, !.dchain = chain]
                /\ UNCHANGED garrays
           ELSE /\ gres' = [NoGRes EXCEPT !.op = "fill", !.kind = "ok",
                                          !.dst = a, !.dchain = chain,
                                          !.vals = <<x>>]
                /\ garrays' = [garrays EXCEPT ![a].data =
                                  GenericArray_fill(garrays[a], w.v, x)]
        /\ gn' = gn + 1
        /\ UNCHANGED hvars

\* view_mut(dst, dchain).set_array(view(src, schain)); the two arrays are
\* distinct, as a mutable and a shared borrow must be.
GSetArray ==
    \E d \in 1..Len(garrays), s \in 1..Len(garrays),
       dchain \in GChains, schain \in GChains :
        /\ gn < MaxGenericOps
        /\ d # s
        /\ LET dw == view_mut(garrays[d], dchain)
               sw == view(garrays[s], schain)
               r  == set_array(garrays[d], dw.v, garrays[s], sw.v)
               g  == [NoGRes EXCEPT !.op = "set_array", !.dst = d, !.dchain = dchain,
                                    !.src = s, !.schain = schain]
           IN  IF ~dw.v.ok \/ ~sw.v.ok
               THEN /\ gres' = [g EXCEPT !.kind = "panic"]
                    /\ UNCHANGED garrays
               ELSE /\ gres' = [g EXCEPT !.kind = r.kind, !.err = r.err]
                    /\ garrays' = [garrays EXCEPT ![d].data = r.data]
        /\ gn' = gn + 1
        /\ UNCHANGED hvars

GenericNext == GFromArray \/ GView \/ GFill \/ GSetArray

GenericSpec == Init /\ [][GenericNext]_vars

\* The steps of a call that is under way.
Step(t) ==
    \/ CopyExit(t)
    \/ AppendEnter(t) \/ AppendExit(t)
    \/ GetItemReadEnter(t) \/ GetItemReadExit(t)
    \/ FillWriteEnter(t) \/ FillWriteExit(t)
    \/ AliasWriteEnter(t) \/ AliasWriteExit(t)
    \/ WriteEnter(t) \/ NestedReadEnter(t) \/ NestedReadExit(t) \/ WriteExit(t)
    \/ LibGetItemExit(t) \/ LibSetItemExit(t)

\* The calls the host can make.
Call(t) ==
    \/ GetItemCall(t) \/ FillCall(t) \/ AssignCall(t)
    \/ LibGetItemCall(t) \/ LibSetItemBadIndices(t) \/ LibSetItemCall(t)

Next == \E t \in Threads : Call(t) \/ Step(t)

Spec == Init /\ [][Next]_vars

(***************************************************************************)
(* Operations of the host beyond indexing and assignment: length, copy    *)
(* and construction.                                                       *)
(***************************************************************************)
\* length, line 81: sliced.shape().get(0).copied().unwrap_or(1).
length(v) == IF Len(v.shape) = 0 THEN 1 ELSE v.shape[1]

\* SlicedArcArray::length, lines 80-82: one read scope.
LengthCall(t) ==
    \E h \in handles :
        /\ LET v == HandleView(h)
               o == [NoOp EXCEPT !.name = "length", !.self = h] IN
           Start(t, IF v.ok THEN [o EXCEPT !.kind = "scalar", !.val = length(v)]
                    ELSE [o EXCEPT !.kind = "panic"],
                 h.st, ReadLockMode, "len_held")
        /\ UNCHANGED <<store, gvars>>

LengthExit(t) ==
    /\ pc[t] = "len_held"
    /\ lock' = Release(op[t].self.st, ReadLockMode, t)
    /\ Return(t, Returned(op[t], op[t].kind, "none", op[t].val, NoHandle))
    /\ UNCHANGED <<store, handles, nops, gvars>>

\* The length slot of the mapping protocol of the array classes, lib.rs
\* lines 92-97: always the runtime error, no lock taken.
LibLength(t) ==
    \E h \in handles :
        /\ h.slices = <<>>
        /\ pc[t] = "idle"
        /\ nops < MaxOps
        /\ nops' = nops + 1
        /\ res' = [res EXCEPT ![t] =
                Returned([NoOp EXCEPT !.name = "lib_length", !.self = h],
                         "error", "NoLen", 0, NoHandle)]
        /\ UNCHANGED <<store, lock, handles, pc, op, gvars>>

\* A copy that shares the receiver's storage and keeps its chain.
sliced_copy_shared(st0, h, copied) == [store |-> st0, h |-> h]

\* sliced_copy, line 87: Self::from_array(sliced.to_owned()): a new
\* storage holding the copy, and an empty chain over it.  [store, h].
sliced_copy(st0, h, copied) ==
    [store |-> Append(st0, [dtype |-> st0[h.st].dtype, shape |-> copied.shape,
                            data |-> copied.data]),
     h |-> from_array(Len(st0) + 1)]

\* SlicedArcArray::sliced_copy, lines 86-88: the read scope opens and the
\* view is copied.
SlicedCopyCall(t) ==
    \E h \in handles :
        /\ Len(store) < MaxStores
        /\ LET v == HandleView(h)
               o == [NoOp EXCEPT !.name = "sliced_copy", !.self = h] IN
           Start(t, IF v.ok
                    THEN [o EXCEPT !.kind = "handle",
                                   !.copied = to_owned(store[h.st].data, v)]
                    ELSE [o EXCEPT !.kind = "panic"],
                 h.st, ReadLockMode, "sc_held")
        /\ UNCHANGED <<store, gvars>>

\* The read scope closes on the handle over the new storage.
SlicedCopyExit(t) ==
    /\ pc[t] = "sc_held"
    /\ IF op[t].kind = "panic"
       THEN /\ Return(t, Returned(op[t], "panic", "none", 0, NoHandle))
            /\ lock' = Release(op[t].self.st, ReadLockMode, t)
            /\ UNCHANGED <<store, handles>>
       ELSE LET r == sliced_copy(store, op[t].self, op[t].copied) IN
            /\ store' = r.store
            /\ lock' = PadLocks(Release(op[t].self.st, ReadLockMode, t), Len(r.store))
            /\ handles' = handles \cup {r.h}
            /\ Return(t, Returned(op[t], "handle", "none", 0, r.h))
    /\ UNCHANGED <<nops, gvars>>

\* The dtype keyword of zeros: absent, a string, or an object that is no
\* string.
DtypeArgs == {"absent", "float32", "float64", "int8", "not a str"}

\* The shapes handed to zeros.
ZerosShapes ==
    {Single(Index(2)), Single(Index(0)), Single(Index(-1)), Tuple(<<>>),
     Tuple(<<Index(2), Index(2)>>), Single(Slice(0, 1))}

\* A lookup that takes every unknown name for the default.
from_pyobject_lenient(dtype) ==
    IF dtype = "float64" THEN [ok |-> TRUE, dtype |-> "f64"]
    ELSE [ok |-> TRUE, dtype |-> "f32"]

\* DataType::from_pyobject, lib.rs lines 314-321: a str "float64" or
\* "float32", anything else is None.
from_pyobject(dtype) ==
    IF dtype = "float64" THEN [ok |-> TRUE, dtype |-> "f64"]
    ELSE IF dtype = "float32" THEN [ok |-> TRUE, dtype |-> "f32"]
    ELSE [ok |-> FALSE, dtype |-> "none"]

\* ArrayD::zeros(shape).
array_zeros(shape) == [k \in 1..Product(shape) |-> 0]

\* zeros(shape, dtype=...), lib.rs lines 115-136.  [kind, err, arr].
zeros(shape, dtype) ==
    LET sh == py_shape_to_rust(shape)
        dt == IF dtype = "absent" THEN [ok |-> TRUE, dtype |-> "f32"]
              ELSE from_pyobject(dtype)
    IN  IF ~sh.ok THEN [kind |-> "error", err |-> "BadShape", arr |-> NoArray]
        ELSE IF ~dt.ok
        THEN [kind |-> "error", err |-> "UnrecognizedDtype", arr |-> NoArray]
        ELSE [kind |-> "handle", err |-> "none",
              arr |-> [dtype |-> dt.dtype, shape |-> sh.idx,
                       data |-> array_zeros(sh.idx)]]

\* zeros: no lock is taken; a success is a new storage under a new handle
\* (PyNdArray::from_array, lib.rs lines 228-233).
Zeros(t) ==
    \E shape \in ZerosShapes, dtype \in DtypeArgs :
        /\ pc[t] = "idle"
        /\ nops < MaxOps
        /\ Len(store) < MaxStores
        /\ nops' = nops + 1
        /\ LET r == zeros(shape, dtype)
               o == [NoOp EXCEPT !.name = "zeros", !.slice = shape.elems,
                                 !.arg = dtype]
               h == from_array(Len(store) + 1)
           IN  IF r.kind = "handle"
               THEN /\ store' = Append(store, r.arr)
                    /\ lock' = PadLocks(lock, Len(store) + 1)
                    /\ handles' = handles \cup {h}
                    /\ res' = [res EXCEPT ![t] = Returned(o, "handle", "none", 0, h)]
               ELSE /\ res' = [res EXCEPT ![t] = Returned(o, "error", r.err, 0, NoHandle)]
                    /\ UNCHANGED <<store, lock, handles>>
        /\ UNCHANGED <<pc, op, gvars>>

\* The calls and steps of a host that also measures, copies and
\* constructs.
HostCall(t) ==
    \/ Call(t)
    \/ LengthCall(t) \/ LibLength(t) \/ SlicedCopyCall(t) \/ Zeros(t)

HostStep(t) == Step(t) \/ LengthExit(t) \/ SlicedCopyExit(t)

\* Thread 1 is the host's main thread; thread 2 writes beside it.
HostNext ==
    \/ HostCall(1)
    \/ FillCall(2) \/ LibSetItemCall(2)
    \/ \E t \in Threads : HostStep(t)

HostSpec == Init /\ [][HostNext]_vars

(***************************************************************************)
(* The scopes of read and write that are open, by thread.                  *)
(***************************************************************************)
\* Storages on which thread t is inside a read callback.
ReadScope(t) ==
    CASE pc[t] = "copy_held" -> {op[t].other.st}
      [] pc[t] = "append_held" -> {op[t].self.st}
      [] pc[t] = "gi_held" -> {op[t].sliced.st}
      [] pc[t] = "as_read_held" -> {op[t].other.st}
      [] pc[t] = "lib_get_held" -> {op[t].self.st}
      [] pc[t] \in {"len_held", "sc_held"} -> {op[t].self.st}
      [] OTHER -> {}

\* Storages on which thread t is inside a write callback.
WriteScope(t) ==
    CASE pc[t] \in {"fill_held", "asa_held", "as_read", "as_read_held", "as_write_held"}
            -> {op[t].sliced.st}
      [] pc[t] = "lib_set_held" -> {op[t].self.st}
      [] OTHER -> {}

Readers(s) == {t \in Threads : s \in ReadScope(t)}

Writers(s) == {t \in Threads : s \in WriteScope(t)}

(***************************************************************************)
(* Properties.                                                             *)
(***************************************************************************)

\* C1: when an aliased assign_fn has written (the write scope is still
\* open), the destination sub-view holds the elements the source sub-view
\* held before the call, whether or not the two ranges overlap.
C1_AliasedAssignReadsSourceFirst ==
    \A t \in Threads :
        (pc[t] = "asa_held" /\ op[t].kind = "ok") =>
            ViewValues(store[op[t].sliced.st].data, HandleView(op[t].sliced)) = op[t].src0

\* C1 witness: h[1:] = h[0:3] on [1,2,3,4] has just written [1,1,2,3].
C1_Witness ==
    \E t \in Threads :
        /\ pc[t] = "asa_held" /\ op[t].kind = "ok"
        /\ op[t].slice = <<Slice(1, 1)>>
        /\ op[t].other = [st |-> 1, slices |-> << <<SliceTo(0, 1, 3)>> >>]
        /\ store[1].data = <<1, 1, 2, 3>>

\* C2: a handle d returned by getitem(h, sel) shows, in every later
\* state, what sel selects of the elements h shows now: writes through
\* either are seen through the other.
C2_SlicingSharesStorage ==
    \A t \in Threads :
        (res[t].op = "getitem" /\ res[t].kind = "handle") =>
            LET h == res[t].self
                d == res[t].h
                m == to_owned(store[h.st].data, HandleView(h))
            IN  ViewValues(store[d.st].data, HandleView(d))
                  = ViewValues(m.data, slice_move(FullView(m.shape), res[t].slice))

\* C2 witness: after getitem returned d, another thread's fill through h
\* has written an element d shows.
C2_Witness ==
    \E t \in Threads, u \in Threads :
        /\ res[t].op = "getitem" /\ res[t].kind = "handle"
        /\ pc[u] = "fill_held" /\ op[u].kind = "ok"
        /\ op[u].self = res[t].self
        /\ \E k \in 1..Len(ViewOffsets(HandleView(res[t].h))) :
              ViewValues(store[res[t].h.st].data, HandleView(res[t].h))[k] \in FillValues

\* C3: on every storage at most one write scope is open and then no read
\* scope is, or only read scopes are; a thread outside every call holds
\* no lock.
C3_ReaderWriterExclusion ==
    /\ \A s \in 1..Len(store) :
          /\ Cardinality(Writers(s)) <= 1
          /\ Writers(s) # {} => Readers(s) = {}
    /\ \A t \in Threads :
          pc[t] = "idle" =>
              \A s \in 1..Len(lock) : lock[s].excl # t /\ t \notin lock[s].shared

\* C3 witness: two read scopes open on one storage at the same time.
C3_Witness == \E s \in 1..Len(store) : Readers(s) = Threads

\* C4 (as claimed): whenever calls are under way, one of them can take
\* its next step, so no set of calls waits for ever.
C4_NoOperationBlocks ==
    (\E t \in Threads : pc[t] # "idle") =>
        \E u \in Threads : pc[u] # "idle" /\ ENABLED Step(u)

C7_ScalarCollapse ==
    \A t \in Threads :
        res[t].op \in {"getitem", "lib_getitem"} =>
            LET cv == slice_move(HandleView(res[t].self), res[t].slice) IN
            cv.ok =>
                /\ res[t].kind = "scalar" <=> Len(cv.shape) = 0
                /\ res[t].kind = "handle" <=> Len(cv.shape) >= 1

\* C8: the only step of an assign_fn call that changes any storage is the
\* one where f runs; when the two shapes differ the callback returns the
\* error naming the source's and the destination's shape instead, in
\* either branch.
C8_ShapeMismatchLeavesDestination ==
    [][\A t \in Threads :
          (pc'[t] # pc[t] /\ (op[t].name = "assign" \/ op'[t].name = "assign")) =>
             /\ (pc[t] \in {"asa_write", "as_read"}
                   /\ HandleView(op[t].sliced).shape
                        # (IF pc[t] = "asa_write" THEN op[t].copied.shape
                           ELSE HandleView(op[t].other).shape))
                  => /\ op'[t].kind = "error" /\ op'[t].err = "ShapeMismatch"
                     /\ op'[t].to = HandleView(op[t].sliced).shape
                     /\ op'[t].from = (IF pc[t] = "asa_write" THEN op[t].copied.shape
                                       ELSE HandleView(op[t].other).shape)
             /\ op'[t].kind # "ok" => store' = store
             /\ (op[t].err = "ShapeMismatch" /\ pc'[t] = "idle")
                  => /\ res'[t].kind = "error" /\ res'[t].err = "ShapeMismatch"
                     /\ res'[t].from = op[t].from /\ res'[t].to = op[t].to
      ]_vars

\* C8 witness: both branches have returned a shape mismatch.
C8_Witness ==
    \E t \in Threads, u \in Threads :
        /\ res[t].err = "ShapeMismatch" /\ res[t].other.st = res[t].self.st
        /\ res[u].err = "ShapeMismatch" /\ res[u].other.st # res[u].self.st
        /\ store[1].data = <<1, 2, 3, 4>>
        /\ store[2].data = <<5, 6, 7, 8, 9, 10>>

\* The view a chain selects of a GenericArray value.
GViewOf(a, chain) == generic_view(FullView(garrays[a].shape), chain)

\* C5 (as claimed): on every access path a chain that leaves an axis's
\* extent is answered with an out-of-bounds error, never with a panic.
C5_BoundsErrorOnEveryPath ==
    /\ \A t \in Threads : res[t].kind # "panic"
    /\ gres.kind # "panic"
    /\ (gres.op \in {"view", "fill"}
          /\ ~GViewOf(IF gres.op = "view" THEN gres.src ELSE gres.dst,
                      IF gres.op = "view" THEN gres.schain ELSE gres.dchain).ok)
         => gres.kind = "error" /\ gres.err = "IndexError"

\* C9: set_array between a 32-bit and a 64-bit array, in either
\* direction, is the TypeMismatch error and writes nothing; a pair of one
\* dtype is assigned element-wise, the destination's view taking the
\* source's elements unconverted.
C9_DtypeIntegrity ==
    [][(gn' = gn + 1 /\ gres'.op = "set_array") =>
          LET d  == garrays[gres'.dst]
              s  == garrays[gres'.src]
              dv == GViewOf(gres'.dst, gres'.dchain)
              sv == GViewOf(gres'.src, gres'.schain)
          IN  (dv.ok /\ sv.ok) =>
                /\ d.dtype # s.dtype =>
                      /\ gres'.kind = "error" /\ gres'.err = "TypeMismatch"
                      /\ garrays' = garrays
                /\ gres'.kind = "ok" =>
                      /\ d.dtype = s.dtype
                      /\ garrays'[gres'.dst].dtype = d.dtype
                      /\ ViewValues(garrays'[gres'.dst].data, dv)
                            = ViewValues(s.data, broadcast(sv, dv.shape))
      ]_vars

\* C9 witness: a 64-bit source holding 2^24 + 1, which no f32 holds, has
\* been refused by a 32-bit destination, whose elements are as they were.
C9_Witness ==
    /\ gres.op = "set_array" /\ gres.err = "TypeMismatch"
    /\ garrays[gres.dst].dtype = "f32" /\ garrays[gres.src].dtype = "f64"
    /\ gres.dchain = <<>> /\ gres.schain = <<>>
    /\ garrays[gres.src].data = <<4, 5, 16777217>>
    /\ garrays[gres.dst].data = <<1, 2, 3>>

\* C10: for a shape of sizes and a list of floats, from_array succeeds
\* with the shape it was given exactly when the shape's product (1 for the
\* empty shape) is the list's length, and is otherwise an error that
\* creates no array.
C10_ConstructionFromFlat ==
    [][(gn' = gn + 1 /\ gres'.op = "from_array"
          /\ try_vec_usize(gres'.in_shape).ok /\ try_vec_f64(gres'.in_data).ok) =>
          IF Product(gres'.in_shape) = Len(gres'.in_data)
          THEN /\ gres'.kind = "ok"
               /\ garrays'[gres'.dst].shape = gres'.in_shape
               /\ Len(garrays'[gres'.dst].data) = Len(gres'.in_data)
          ELSE /\ gres'.kind = "error" /\ gres'.err = "ShapeError"
               /\ gres'.dst = 0
               /\ garrays' = garrays
      ]_vars

\* C10 witness: one element under the empty shape has made a 0-d array,
\* and three elements under the shape (2, 2) have then been refused.
C10_Witness ==
    /\ gres.op = "from_array" /\ gres.err = "ShapeError"
    /\ gres.in_shape = <<2, 2>> /\ Len(gres.in_data) = 3
    /\ \E a \in 1..Len(garrays) :
          garrays[a].shape = <<>> /\ Len(garrays[a].data) = 1

\* A chain fails on a dimension count: its first group that can not be
\* applied is one whose descriptors consume another number of axes than
\* the view then has.
RECURSIVE DimensionFails(_, _)
DimensionFails(v, slices) ==
    IF slices = <<>> \/ ~v.ok THEN FALSE
    ELSE IF in_ndim(Head(slices)) # Len(v.shape) THEN TRUE
    ELSE DimensionFails(slice_move(v, Head(slices)), Tail(slices))

\* C11 (as claimed): a group whose descriptor count differs from the
\* view's number of dimensions is answered with a DimensionMismatch
\* error; it is no panic and selects nothing.
C11_DimensionMismatchReported ==
    /\ \A t \in Threads :
          (res[t].op \in {"getitem", "fill", "assign"}
             /\ DimensionFails(HandleView(res[t].self), <<res[t].slice>>))
            => res[t].kind = "error"
    /\ (gres.op \in {"view", "fill"}
          /\ DimensionFails(FullView(garrays[IF gres.op = "view" THEN gres.src
                                            ELSE gres.dst].shape),
                            IF gres.op = "view" THEN gres.schain ELSE gres.dchain))
         => gres.kind = "error" /\ gres.err = "DimensionMismatch"

\* C12 (as claimed): len() of a handle, by either length operation, is
\* the extent of axis 0 of the handle's composed view, and 1 when the
\* view is zero-dimensional.
C12_LenReportsAxis0 ==
    \A t \in Threads :
        res[t].op \in {"length", "lib_length"} =>
            LET v == HandleView(res[t].self) IN
            /\ res[t].kind = "scalar"
            /\ res[t].val = (IF v.shape = <<>> THEN 1 ELSE Head(v.shape))

\* C13: sliced_copy returns an empty chain over a storage that did not
\* exist before, holding the shape and elements the receiver's view has
\* when the copy is made, and leaves every existing storage as it was;
\* from then on a storage changes only in a step of a thread inside a
\* write scope on that very storage, so a write through the copy never
\* reaches the original nor one through the original the copy.
C13_SlicedCopyFreshStorage ==
    [][/\ \A t \in Threads :
            (pc[t] = "sc_held" /\ op[t].kind = "handle" /\ pc'[t] = "idle") =>
               LET c == res'[t].h
                   h == op[t].self
               IN  /\ res'[t].kind = "handle"
                   /\ c.slices = <<>>
                   /\ c.st \notin 1..Len(store) /\ c.st \in 1..Len(store')
                   /\ c \notin handles /\ c \in handles' /\ h \in handles'
                   /\ store'[c.st].shape = HandleView(h).shape
                   /\ store'[c.st].data = ViewValues(store[h.st].data, HandleView(h))
                   /\ store'[c.st].dtype = store[h.st].dtype
                   /\ \A s \in 1..Len(store) : store'[s] = store[s]
       /\ \A s \in 1..Len(store) :
            store'[s] # store[s] =>
               \E u \in Threads : pc'[u] # pc[u] /\ s \in WriteScope(u)'
      ]_vars

\* C13 witness: the copy of the whole first array still holds 1, 2, 3, 4
\* after another thread has written to the original.
C13_Witness ==
    \E t \in Threads :
        /\ res[t].op = "sliced_copy" /\ res[t].kind = "handle"
        /\ res[t].self = from_array(1)
        /\ store[res[t].h.st].data = <<1, 2, 3, 4>>
        /\ store[1].data # <<1, 2, 3, 4>>

\* C14: no step of get_item, and no append_slice of any call, changes the
\* receiver or a storage: every handle that exists stays as it is, the
\* storages keep their contents, and a successful append yields the
\* receiver's chain followed by the one new group over the receiver's own
\* storage, which is what get_item returns as a handle.
C14_GetItemLeavesReceiver ==
    [][\A t \in Threads :
          pc'[t] # pc[t] =>
             /\ (op[t].name = "getitem" \/ op'[t].name = "getitem") =>
                   /\ store' = store
                   /\ handles \subseteq handles'
                   /\ (op[t].name = "getitem" /\ op'[t].name = "getitem")
                         => op'[t].self = op[t].self
             /\ (pc[t] = "append_held" /\ pc'[t] # "idle") =>
                   /\ store' = store /\ handles' = handles
                   /\ op'[t].self = op[t].self
                   /\ op'[t].sliced.st = op[t].self.st
                   /\ op'[t].sliced.slices = Append(op[t].self.slices, op[t].slice)
             /\ (pc[t] = "append_held" /\ pc'[t] = "idle") =>
                   /\ store' = store /\ handles' = handles
                   /\ res'[t].kind \in {"error", "panic"}
             /\ (pc[t] = "gi_held" /\ res'[t].kind = "handle") =>
                   /\ res'[t].h.st = res'[t].self.st
                   /\ res'[t].h.slices = Append(res'[t].self.slices, res'[t].slice)
                   /\ res'[t].self \in handles'
      ]_vars

\* C14 witness: get_item on a handle that is itself a slice has returned
\* a handle, and the receiver is still among the handles.
C14_Witness ==
    \E t \in Threads :
        /\ res[t].op = "getitem" /\ res[t].kind = "handle"
        /\ res[t].self.slices # <<>>
        /\ res[t].self \in handles
        /\ res[t].h.slices = Append(res[t].self.slices, res[t].slice)
        /\ Len(res[t].h.slices) = 2

\* The buffer positions a chain selects of a GenericArray value.
Selected(a, chain) ==
    LET offs == ViewOffsets(GViewOf(a, chain)) IN {offs[k] + 1 : k \in 1..Len(offs)}

\* C15 (as claimed): after a fill succeeds every element of the selected
\* view equals the scalar, and every other element is as it was.
C15_FillWritesScalar ==
    [][(gn' = gn + 1 /\ gres'.op = "fill" /\ gres'.kind = "ok") =>
          LET a == gres'.dst
              x == gres'.vals[1]
          IN  \A k \in 1..Len(garrays[a].data) :
                 garrays'[a].data[k] =
                    (IF k \in Selected(a, gres'.dchain) THEN x ELSE garrays[a].data[k])
      ]_vars

\* C15 (amended): after a fill succeeds every element of the selected view
\* equals the scalar converted to the array's element type (`scalar as
\* f32` in an f32 array, the scalar itself in an f64 array), every other
\* element of the array is as it was, and so is every other array.
C15_FillWritesCastScalar ==
    [][(gn' = gn + 1 /\ gres'.op = "fill" /\ gres'.kind = "ok") =>
          LET a == gres'.dst
              x == gres'.vals[1]
              e == IF garrays[a].dtype = "f32" THEN as_f32(x) ELSE x
          IN  /\ Len(garrays') = Len(garrays)
              /\ \A k \in 1..Len(garrays[a].data) :
                    garrays'[a].data[k] =
                       (IF k \in Selected(a, gres'.dchain) THEN e ELSE garrays[a].data[k])
              /\ garrays'[a].shape = garrays[a].shape
              /\ garrays'[a].dtype = garrays[a].dtype
              /\ \A b \in 1..Len(garrays) : b # a => garrays'[b] = garrays[b]
      ]_vars

\* C15 witness: 2^24 + 1 filled into the tail of the f32 array 1, 2, 3:
\* the tail holds 2^24, the head is untouched.
C15_Witness ==
    /\ gres.op = "fill" /\ gres.kind = "ok"
    /\ gres.dchain = << <<Slice(1, 1)>> >> /\ gres.vals = <<16777217>>
    /\ garrays[gres.dst].dtype = "f32"
    /\ garrays[gres.dst].data = <<1, 16777216, 16777216>>

\* The storages on which thread t holds a lock, of either kind.
Held(t) == {s \in 1..Len(lock) : lock[s].excl = t \/ t \in lock[s].shared}

\* C16: in an aliased assign_fn the source is in the temporary buffer and
\* the thread holds no lock at all when it goes on to append and to take
\* the write lock; it never holds a storage shared and exclusively at
\* once, and with no other call under way its write lock is granted.
C16_AliasedAssignLockOrder ==
    \A t \in Threads :
        (op[t].name = "assign" /\ op[t].other.st = op[t].self.st) =>
            /\ pc[t] \in {"append", "asa_write"} =>
                  /\ Held(t) = {}
                  /\ op[t].copied.shape = HandleView(op[t].other).shape
                  /\ op[t].copied.data = op[t].src0
            /\ \A s \in 1..Len(lock) : ~(lock[s].excl = t /\ t \in lock[s].shared)
            /\ Cardinality(Held(t)) <= 1
            /\ pc[t] = "asa_held" => Held(t) = {op[t].self.st}
            /\ (pc[t] = "asa_write" /\ \A u \in Threads \ {t} : pc[u] = "idle")
                  => CanAcquire(op[t].self.st, WriteLockMode)

\* C16 witness: an aliased assign is between its copy and its write: the
\* source is copied, the storage's lock is free.
C16_Witness ==
    \E t \in Threads :
        /\ op[t].name = "assign" /\ op[t].other.st = op[t].self.st
        /\ pc[t] = "asa_write"
        /\ op[t].copied.data = <<1, 2, 3, 4>>
        /\ lock[op[t].self.st] = [excl |-> 0, shared |-> {}]

\* C17: in every step each storage keeps the shape (and the number of
\* elements) it has, every handle there is -- returned or still inside
\* its call -- has a chain that folds onto its storage's full view, and
\* no scope of read or write ends in a panic.
C17_HandleValidity ==
    [][/\ \A s \in 1..Len(store) :
            /\ s <= Len(store')
            /\ store'[s].shape = store[s].shape
            /\ Len(store'[s].data) = Len(store[s].data)
            /\ store'[s].dtype = store[s].dtype
       /\ \A s \in 1..Len(store') :
            Len(store'[s].data) = Product(store'[s].shape)
       /\ \A h \in handles' :
            /\ h.st \in 1..Len(store')
            /\ apply_slices(FullView(store'[h.st].shape), h.slices).ok
       /\ \A t \in Threads :
            /\ op'[t].sliced # NoHandle =>
                  apply_slices(FullView(store'[op'[t].sliced.st].shape),
                               op'[t].sliced.slices).ok
            /\ op'[t].kind # "panic" /\ res'[t].kind # "panic"
      ]_vars

\* C17 witness: an array made by zeros has been sliced, and the slice's
\* handle shows one element of it.
C17_Witness ==
    \E h \in handles :
        /\ h.st = 3 /\ h.slices # <<>>
        /\ store[3].shape = <<2>>
        /\ HandleView(h).ok /\ HandleView(h).shape = <<1>>

\* The extent a range leaves of an axis of extent dim: the positions from
\* start up to end, every |step|-th one, counted from the start for a
\* positive step and from the end for a negative one.
RangeLen(dim, e) ==
    LET start == IF e.start < 0 THEN e.start + dim ELSE e.start
        end0  == IF e.hasEnd THEN (IF e.end < 0 THEN e.end + dim ELSE e.end) ELSE dim
    IN  Cardinality({i \in 0..(dim - 1) :
            /\ start <= i /\ i < end0
            /\ IF e.step > 0 THEN (i - start) % e.step = 0
               ELSE (end0 - 1 - i) % (-e.step) = 0})

\* The shape one group leaves of a shape: an Index removes its axis, a
\* range keeps it narrowed, a NewAxis puts in an axis of extent 1.
RECURSIVE GroupShape(_, _)
GroupShape(shape, g) ==
    IF g = <<>> THEN <<>>
    ELSE CASE Head(g).t = "Index" -> GroupShape(Tail(shape), Tail(g))
           [] Head(g).t = "Slice" ->
                <<RangeLen(Head(shape), Head(g))>> \o GroupShape(Tail(shape), Tail(g))
           [] OTHER -> <<1>> \o GroupShape(shape, Tail(g))

\* The chain applied group by group, each to a materialised copy of what
\* the groups before it selected.  [ok, shape, data].
RECURSIVE Materialised(_, _)
Materialised(b, slices) ==
    IF slices = <<>> \/ ~b.ok THEN b
    ELSE LET v == slice_move(FullView(b.shape), Head(slices)) IN
         IF ~v.ok THEN [ok |-> FALSE, shape |-> <<>>, data |-> <<>>]
         ELSE Materialised([ok |-> v.shape = GroupShape(b.shape, Head(slices)),
                            shape |-> v.shape, data |-> ViewValues(b.data, v)],
                           Tail(slices))

\* C18: the view of a chain is the chain's groups applied in order: it
\* shows the shape and the elements of applying each group to a copy of
\* what the groups before it selected, each group removing an axis per
\* Index, narrowing one per range and putting one in per NewAxis; and the
\* mutable composer selects the same elements as the read-only one.
C18_SliceChainComposition ==
    gres.op = "view" =>
        LET arr == garrays[gres.src]
            m   == Materialised([ok |-> TRUE, shape |-> arr.shape, data |-> arr.data],
                                gres.schain)
            r   == view(arr, gres.schain).v
            w   == view_mut(arr, gres.schain).v
        IN  /\ gres.kind = "view" <=> m.ok
            /\ gres.kind = "view" =>
                  /\ gres.shape = m.shape /\ gres.vals = m.data
                  /\ r.ok /\ w.ok
                  /\ w.shape = r.shape
                  /\ ViewOffsets(w) = ViewOffsets(r)
            /\ gres.kind # "view" => ~r.ok /\ ~w.ok

\* C18 witness: on the 2 x 2 array the chain [1:, ::-1][0, 0] shows the
\* single element 4.
C18_Witness ==
    /\ gres.op = "view" /\ gres.kind = "view"
    /\ gres.schain = << <<Slice(1, 1), Slice(0, -1)>>, <<Index(0), Index(0)>> >>
    /\ garrays[gres.src].shape = <<2, 2>>
    /\ garrays[gres.src].data = <<1, 2, 3, 4>>
    /\ gres.shape = <<>> /\ gres.vals = <<4>>

\* C19: zeros with a shape of sizes and dtype absent, "float32" or
\* "float64" returns an empty chain over a storage that did not exist
\* before, of exactly that shape, every element zero, 64-bit for "float64"
\* and 32-bit otherwise; any other dtype is an error that creates no
\* storage and no handle.
C19_ZerosShapeAndDtype ==
    [][\A t \in Threads :
          (pc' = pc /\ nops' = nops + 1 /\ res'[t].op = "zeros"
             /\ \A u \in Threads \ {t} : res'[u] = res[u]) =>
             LET r     == res'[t]
                 sizes == \A k \in 1..Len(r.slice) :
                             r.slice[k].t = "Index" /\ r.slice[k].start >= 0
                 shape == [k \in 1..Len(r.slice) |-> r.slice[k].start]
             IN  sizes =>
                   IF r.arg \in {"absent", "float32", "float64"}
                   THEN /\ r.kind = "handle"
                        /\ r.h.slices = <<>>
                        /\ r.h.st = Len(store) + 1 /\ Len(store') = Len(store) + 1
                        /\ r.h \in handles' \ handles
                        /\ store'[r.h.st].shape = shape
                        /\ Len(store'[r.h.st].data) = Product(shape)
                        /\ \A k \in 1..Len(store'[r.h.st].data) :
                              store'[r.h.st].data[k] = 0
                        /\ store'[r.h.st].dtype =
                              (IF r.arg = "float64" THEN "f64" ELSE "f32")
                        /\ \A s \in 1..Len(store) : store'[s] = store[s]
                   ELSE /\ r.kind = "error" /\ r.err = "UnrecognizedDtype"
                        /\ store' = store /\ handles' = handles
      ]_vars

\* C19 witness: zeros((2, 2), dtype="float64") has returned a handle over
\* four 64-bit zeros.
C19_Witness ==
    \E t \in Threads :
        /\ res[t].op = "zeros" /\ res[t].arg = "float64" /\ res[t].kind = "handle"
        /\ res[t].h.slices = <<>>
        /\ store[res[t].h.st] =
              [dtype |-> "f64", shape |-> <<2, 2>>, data |-> <<0, 0, 0, 0>>]

====
